---- MODULE Spec2Model ----
(***************************************************************************)
(* The short-URL management engine (UrlService): the id->entry map, the    *)
(* code->id index, the two persisted localStorage records, the wall clock  *)
(* and the public operations createShortUrl, getUrlByShortCode,            *)
(* incrementClicks, deleteUrl and cleanupExpiredUrls.                      *)
(*                                                                         *)
(* Representation.                                                         *)
(*  - A string is a sequence of one-character strings, "abc" is            *)
(*    <<"a","b","c">>, so that length and character class are computed.    *)
(*  - A time is a number of milliseconds counted from the moment the       *)
(*    session starts (Date.now() minus that moment); an ISO timestamp is   *)
(*    represented by the millisecond value it denotes.                     *)
(*  - An id is Date.now().toString(); decimal rendering is injective and   *)
(*    ids are only compared for equality, so an id is the number rendered. *)
(*  - An optional field that is undefined is a field the record lacks.     *)
(*  - A Map is a function; the Map urlEntries, whose values are listed by  *)
(*    saveToStorage, also has the sequence of its keys in insertion order  *)
(*    (set of a new key appends it, set of a present key leaves it where   *)
(*    it is, delete removes it).                                           *)
(*  - A JSON text is the value it denotes, tagged with its kind; the       *)
(*    empty text has the kind "empty", any other text that does not parse  *)
(*    has the kind "unparseable".                                          *)
(***************************************************************************)
EXTENDS Integers, Sequences, FiniteSets, TLC

VARIABLES
    urlEntries,      \* Map<string, UrlEntry>: id -> entry
    urlOrder,        \* the keys of urlEntries in the Map's iteration order
    shortCodeToId,   \* Map<string, string>: shortCode -> id
    storage,         \* localStorage items 'urlEntries' and 'shortCodeMappings'
    clock,           \* the reading of Date.now() / new Date()
    writeBudget,     \* how many localStorage.setItem calls may still throw
    thrown,          \* whether an exception escaped the last call
    last             \* the last operation called, its arguments and its result

vars == <<urlEntries, urlOrder, shortCodeToId, storage, clock, writeBudget, thrown, last>>

-----------------------------------------------------------------------------
(* Bounds of the exploration *)

\* an entry is clicked at most this many times
MaxClicks == 2
\* the generator draws at most this many candidates in one call
MaxDraws == 2

\* the clock readings explored (ms since the session started)
Instants == {0, 59000, 60000, 61000}

\* what a second reading of the clock inside one call can give after a
\* first reading `now`: the same instant or the next one explored
LaterReadings(now) ==
    { t \in Instants : t >= now /\ \A u \in Instants : u > now => t <= u }

-----------------------------------------------------------------------------
(* Program constants *)

MinCodeLength == 3
MaxCodeLength == 20
GeneratedLength == 8
DefaultValidityMinutes == 30
MsPerMinute == 60 * 1000

Upper == {"A","B","C","D","E","F","G","H","I","J","K","L","M",
          "N","O","P","Q","R","S","T","U","V","W","X","Y","Z"}
Lower == {"a","b","c","d","e","f","g","h","i","j","k","l","m",
          "n","o","p","q","r","s","t","u","v","w","x","y","z"}
Digits == {"0","1","2","3","4","5","6","7","8","9"}

\* the generator's alphabet, which is also the class [a-zA-Z0-9]
chars == Upper \cup Lower \cup Digits

Rep(c, n) == [i \in 1..n |-> c]

-----------------------------------------------------------------------------
(* Inputs *)

\* candidates Math.random can make the generator draw
GenPool == { Rep("A", GeneratedLength), Rep("B", GeneratedLength) }

DrawSeqs == UNION { [1..n -> GenPool] : n \in 1..MaxDraws }

\* custom codes a caller supplies: empty, too short, valid (and one the
\* generator can draw too), a bad character, too long
CustomCodes == { <<>>, <<"a","b">>, Rep("A", GeneratedLength), <<"a","-","c">>,
                 Rep("z", MaxCodeLength + 1) }

LongUrls == { "https://example.com/page", "ftp://example.com/file", "not a url" }

ValidityInputs == { 0, 1, -1 }

\* custom codes of CustomCodes that fail the length or the character test
BadCodes == { c \in CustomCodes :
                /\ c # <<>>
                /\ \/ Len(c) < MinCodeLength
                   \/ Len(c) > MaxCodeLength
                   \/ \E i \in 1..Len(c) : c[i] \notin chars }

\* A request whose long URL or custom code fails a test that does not read
\* the state is tried without the optional fields the call does not reach;
\* the empty custom code, which the call treats as no custom code, is tried
\* without validityMinutes.
Requests ==
    LET ok == "https://example.com/page"
        bad == { [longUrl |-> u] : u \in LongUrls \ {ok} }
        badCode == { [longUrl |-> ok, customShortCode |-> c] : c \in BadCodes }
        base == { [longUrl |-> ok] }
        withCode == { [longUrl |-> ok, customShortCode |-> c] :
                        c \in CustomCodes \ BadCodes }
        withMin == { [longUrl |-> ok, validityMinutes |-> v] : v \in ValidityInputs }
        withBoth == { [longUrl |-> ok, customShortCode |-> c, validityMinutes |-> v] :
                        c \in CustomCodes \ (BadCodes \cup {<<>>}), v \in ValidityInputs }
    IN  bad \cup badCode \cup base \cup withCode \cup withMin \cup withBoth

\* codes a caller resolves or clicks
LookupCodes == GenPool \cup { <<"n","o","n","e">> }

-----------------------------------------------------------------------------
(* Map helpers *)

MapSet(m, k, v) == [x \in (DOMAIN m) \cup {k} |-> IF x = k THEN v ELSE m[x]]

MapDelete(m, k) == [x \in (DOMAIN m) \ {k} |-> m[x]]

EmptyMap == [x \in {} |-> x]

\* the key order of a Map after set(k, v) and after delete(k)
OrderSet(order, k) ==
    IF \E i \in 1..Len(order) : order[i] = k THEN order ELSE Append(order, k)

OrderDelete(order, k) ==
    LET keep(x) == x # k IN SelectSeq(order, keep)

Null == [isNull |-> TRUE]

-----------------------------------------------------------------------------
(* Persistence: saveToStorage *)

\* Array.from(this.urlEntries.values()): the entries in the iteration order
\* of the Map
valuesOf(entries, order) == [i \in 1..Len(order) |-> entries[order[i]]]

\* JSON.stringify that leaves the soft-expired entries out of the array
StringifyUrls_ValidOnly(entries, order) ==
    LET valid(id) == entries[id].isValid
    IN  [json |-> "array", items |-> valuesOf(entries, SelectSeq(order, valid))]

\* JSON.stringify(urls): the text of the array of the entries; a field that
\* is undefined is not written
StringifyUrls(entries, order) == [json |-> "array", items |-> valuesOf(entries, order)]

\* JSON.stringify(Object.fromEntries(this.shortCodeToId)): the text of the
\* object whose keys are the codes
StringifyMappings(index) == [json |-> "object", members |-> index]

\* saveToStorage with no try block around the two writes
saveToStorage_Uncaught(entries, order, index) ==
    \/ /\ storage' = [urlEntries |-> <<StringifyUrls(entries, order)>>,
                      shortCodeMappings |-> <<StringifyMappings(index)>>]
       /\ UNCHANGED writeBudget
       /\ thrown' = FALSE
    \/ /\ writeBudget > 0
       /\ writeBudget' = writeBudget - 1
       /\ UNCHANGED storage
       /\ thrown' = TRUE
    \/ /\ writeBudget > 0
       /\ writeBudget' = writeBudget - 1
       /\ storage' = [storage EXCEPT !.urlEntries = <<StringifyUrls(entries, order)>>]
       /\ thrown' = TRUE

\* The two setItem calls inside one try block. Either both succeed, or the
\* first throws (quota exceeded, storage unavailable) and nothing is written,
\* or the second throws after the first record was written. The exception is
\* caught and logged (the logger catches its own storage errors), so the
\* call returns normally.
saveToStorage(entries, order, index) ==
    \/ /\ storage' = [urlEntries |-> <<StringifyUrls(entries, order)>>,
                      shortCodeMappings |-> <<StringifyMappings(index)>>]
       /\ UNCHANGED writeBudget
       /\ thrown' = FALSE
    \/ /\ writeBudget > 0
       /\ writeBudget' = writeBudget - 1
       /\ UNCHANGED storage
       /\ thrown' = FALSE
    \/ /\ writeBudget > 0
       /\ writeBudget' = writeBudget - 1
       /\ storage' = [storage EXCEPT !.urlEntries = <<StringifyUrls(entries, order)>>]
       /\ thrown' = FALSE

-----------------------------------------------------------------------------
(* Persistence: loadFromStorage *)

\* A stored text is the text of an array, the text of an object, the text
\* "null", the empty text, or another text JSON.parse rejects.
NothingLoaded ==
    [urlEntries |-> EmptyMap, urlOrder |-> <<>>, shortCodeToId |-> EmptyMap,
     caught |-> FALSE]

\* if (storedUrls), if (storedMappings): getItem returned a text (not null)
\* and the text is not the empty one
Truthy(item) == item # <<>> /\ item[1].json # "empty"

\* urls.forEach(url => { urlEntries.set(url.id, url);
\*                       shortCodeToId.set(url.shortCode, url.id) }):
\* reading url.id of an element that is null throws, and what the elements
\* before it have set stays set
RECURSIVE loadUrls(_, _, _)
loadUrls(items, i, acc) ==
    IF i > Len(items) THEN acc
    ELSE IF items[i] = Null THEN [acc EXCEPT !.caught = TRUE]
    ELSE loadUrls(items, i + 1,
                  [acc EXCEPT !.urlEntries = MapSet(@, items[i].id, items[i]),
                              !.urlOrder = OrderSet(@, items[i].id),
                              !.shortCodeToId = MapSet(@, items[i].shortCode, items[i].id)])

\* Object.entries(mappings).forEach(([shortCode, id]) =>
\*     shortCodeToId.set(shortCode, id))
loadMappings(members, acc) ==
    [acc EXCEPT !.shortCodeToId =
        [c \in (DOMAIN @) \cup (DOMAIN members) |->
            IF c \in DOMAIN members THEN members[c] ELSE @[c]]]

\* the decimal text of an array index
DecimalDigits == <<"0", "1", "2", "3", "4", "5", "6", "7", "8", "9">>

RECURSIVE decimal(_)
decimal(n) ==
    IF n < 10 THEN <<DecimalDigits[n + 1]>>
    ELSE Append(decimal(n \div 10), DecimalDigits[(n % 10) + 1])

\* Object.entries(mappings) of a parsed array: one member per element, its
\* key the text of the element's index and its value the element
entriesOfArray(items) ==
    [c \in { decimal(i - 1) : i \in 1..Len(items) } |->
        items[CHOOSE i \in 1..Len(items) : decimal(i - 1) = c]]

\* The body of the try block run on the two empty Maps of a new service: an
\* item that is absent or is the empty text is skipped; JSON.parse of a bad
\* text, forEach of a value that is not an array (null, an object) and
\* Object.entries(null) throw, and the catch block ends the load with
\* whatever was set so far. Object.entries of an array does not throw.
loaded(store) ==
    LET afterUrls ==
            IF ~Truthy(store.urlEntries) THEN NothingLoaded
            ELSE IF store.urlEntries[1].json = "array"
                 THEN loadUrls(store.urlEntries[1].items, 1, NothingLoaded)
                 ELSE [NothingLoaded EXCEPT !.caught = TRUE]
    IN  IF afterUrls.caught \/ ~Truthy(store.shortCodeMappings) THEN afterUrls
        ELSE IF store.shortCodeMappings[1].json = "object"
             THEN loadMappings(store.shortCodeMappings[1].members, afterUrls)
        ELSE IF store.shortCodeMappings[1].json = "array"
             THEN loadMappings(entriesOfArray(store.shortCodeMappings[1].items), afterUrls)
             ELSE [afterUrls EXCEPT !.caught = TRUE]

\* new UrlService() in a new session over the same localStorage: the two
\* Maps start empty and loadFromStorage fills them; the error of a failed
\* load is caught and logged, nothing is thrown to the caller
loadFromStorage ==
    /\ urlEntries' = loaded(storage).urlEntries
    /\ urlOrder' = loaded(storage).urlOrder
    /\ shortCodeToId' = loaded(storage).shortCodeToId
    /\ thrown' = FALSE
    /\ last' = [op |-> "loadFromStorage", caught |-> loaded(storage).caught]
    /\ UNCHANGED <<storage, clock, writeBudget>>

-----------------------------------------------------------------------------
(* Validation and generation *)

\* the generator without the retry: the first draw is returned
generateShortCode_NoRetry(draws) ==
    IF draws = <<>> THEN <<>> ELSE Head(draws)

\* one pass of the do-while loop per draw: the first draw that is not a key
\* of the index is returned; <<>> when every draw given was taken, that is
\* when the loop is still running after these draws
RECURSIVE generateShortCode(_)
generateShortCode(draws) ==
    IF draws = <<>> THEN <<>>
    ELSE IF Head(draws) \in DOMAIN shortCodeToId
         THEN generateShortCode(Tail(draws))
         ELSE Head(draws)

\* validateShortCode without the lookup in the index
validateShortCode_NoTakenTest(shortCode) ==
    IF shortCode = <<>> \/ Len(shortCode) < MinCodeLength
                        \/ Len(shortCode) > MaxCodeLength
    THEN [isValid |-> FALSE,
          error |-> "Shortcode must be between 3 and 20 characters"]
    ELSE IF ~(\A i \in 1..Len(shortCode) : shortCode[i] \in chars)
    THEN [isValid |-> FALSE,
          error |-> "Shortcode must contain only letters and numbers"]
    ELSE [isValid |-> TRUE]

validateShortCode(shortCode) ==
    IF shortCode = <<>> \/ Len(shortCode) < MinCodeLength
                        \/ Len(shortCode) > MaxCodeLength
    THEN [isValid |-> FALSE,
          error |-> "Shortcode must be between 3 and 20 characters"]
    ELSE IF ~(\A i \in 1..Len(shortCode) : shortCode[i] \in chars)
    THEN [isValid |-> FALSE,
          error |-> "Shortcode must contain only letters and numbers"]
    ELSE IF shortCode \in DOMAIN shortCodeToId
    THEN [isValid |-> FALSE, error |-> "Shortcode already exists"]
    ELSE [isValid |-> TRUE]

\* new URL(url): whether the string parses as an absolute URL, and its scheme
ParseUrl(url) ==
    CASE url = "https://example.com/page" -> [ok |-> TRUE, protocol |-> "https:"]
      [] url = "ftp://example.com/file"   -> [ok |-> TRUE, protocol |-> "ftp:"]
      [] OTHER                            -> [ok |-> FALSE]

validateLongUrl(url) ==
    LET urlObj == ParseUrl(url) IN
    IF ~urlObj.ok
    THEN [isValid |-> FALSE, error |-> "Invalid URL format"]
    ELSE IF urlObj.protocol \notin {"http:", "https:"}
    THEN [isValid |-> FALSE, error |-> "URL must use HTTP or HTTPS protocol"]
    ELSE [isValid |-> TRUE]

-----------------------------------------------------------------------------
(* createShortUrl *)

\* if (request.customShortCode): the field is present and not the empty string
hasCustomShortCode(request) ==
    /\ "customShortCode" \in DOMAIN request
    /\ request.customShortCode # <<>>

\* request.validityMinutes || 30
validityOf(request) ==
    IF "validityMinutes" \in DOMAIN request /\ request.validityMinutes # 0
    THEN request.validityMinutes
    ELSE DefaultValidityMinutes

\* Date.now().toString(), read when the entry object is built: a second
\* reading of the clock, after the reading `new Date()` that gives createdAt
newId(now) == now

\* `${window.location.origin}/${shortCode}`
shortUrlOf(shortCode) == <<"origin", "/">> \o shortCode

newEntry(request, shortCode, now, later) ==
    LET createdAt == now
        expiresAt == createdAt + validityOf(request) * MsPerMinute
    IN  IF "customShortCode" \in DOMAIN request
        THEN [id |-> newId(later), longUrl |-> request.longUrl,
              shortUrl |-> shortUrlOf(shortCode), shortCode |-> shortCode,
              createdAt |-> createdAt, expiresAt |-> expiresAt,
              clicks |-> 0, isValid |-> TRUE,
              customShortCode |-> request.customShortCode]
        ELSE [id |-> newId(later), longUrl |-> request.longUrl,
              shortUrl |-> shortUrlOf(shortCode), shortCode |-> shortCode,
              createdAt |-> createdAt, expiresAt |-> expiresAt,
              clicks |-> 0, isValid |-> TRUE]

\* the response of a call that stops at a failed validation, or <<>> when
\* both validations pass
createFailure(request) ==
    LET urlValidation == validateLongUrl(request.longUrl) IN
    IF ~urlValidation.isValid
    THEN <<[success |-> FALSE, error |-> urlValidation.error]>>
    ELSE IF hasCustomShortCode(request)
            /\ ~validateShortCode(request.customShortCode).isValid
    THEN <<[success |-> FALSE,
            error |-> validateShortCode(request.customShortCode).error]>>
    ELSE <<>>

createShortUrl(request) ==
    IF createFailure(request) # <<>>
    THEN /\ last' = [op |-> "createShortUrl", request |-> request,
                     ret |-> createFailure(request)[1]]
         /\ UNCHANGED <<urlEntries, urlOrder, shortCodeToId, storage, clock, writeBudget, thrown>>
    ELSE \E draws \in (IF hasCustomShortCode(request) THEN {<<>>} ELSE DrawSeqs) :
         \E later \in LaterReadings(clock) :
         LET shortCode == IF hasCustomShortCode(request)
                          THEN request.customShortCode
                          ELSE generateShortCode(draws)
             urlEntry == newEntry(request, shortCode, clock, later)
         IN  /\ shortCode # <<>>
             /\ urlEntries' = MapSet(urlEntries, urlEntry.id, urlEntry)
             /\ urlOrder' = OrderSet(urlOrder, urlEntry.id)
             /\ shortCodeToId' = MapSet(shortCodeToId, shortCode, urlEntry.id)
             /\ saveToStorage(urlEntries', urlOrder', shortCodeToId')
             /\ last' = [op |-> "createShortUrl", request |-> request,
                         ret |-> [success |-> TRUE, urlEntry |-> urlEntry]]
             /\ clock' = later

-----------------------------------------------------------------------------
(* getUrlByShortCode and incrementClicks *)

\* the two Map lookups: the entry the index leads to, or Null
lookup(shortCode) ==
    IF shortCode \notin DOMAIN shortCodeToId THEN Null
    ELSE IF shortCodeToId[shortCode] \notin DOMAIN urlEntries THEN Null
    ELSE urlEntries[shortCodeToId[shortCode]]

\* the expiry test with >= in place of >
isExpired_AtBoundary(urlEntry, now) == now >= urlEntry.expiresAt

\* new Date() > new Date(urlEntry.expiresAt)
isExpired(urlEntry, now) == now > urlEntry.expiresAt

\* getUrlByShortCode without the expiry test
resolve_NoExpiryTest(shortCode) == lookup(shortCode)

\* what getUrlByShortCode returns
resolve(shortCode) ==
    IF lookup(shortCode) = Null THEN Null
    ELSE IF isExpired(lookup(shortCode), clock) THEN Null
    ELSE lookup(shortCode)

\* a soft expiry that removes the entry and frees its code
softExpire_Removes(urlEntry) ==
    /\ urlEntries' = MapDelete(urlEntries, urlEntry.id)
    /\ urlOrder' = OrderDelete(urlOrder, urlEntry.id)
    /\ shortCodeToId' = MapDelete(shortCodeToId, urlEntry.shortCode)
    /\ saveToStorage(urlEntries', urlOrder', shortCodeToId')

\* the soft expiry kept in memory only
softExpire_Unsaved(urlEntry) ==
    /\ urlEntries' = MapSet(urlEntries, urlEntry.id,
                            [urlEntry EXCEPT !.isValid = FALSE])
    /\ urlOrder' = OrderSet(urlOrder, urlEntry.id)
    /\ UNCHANGED <<shortCodeToId, storage, writeBudget, thrown>>

\* the soft expiry of getUrlByShortCode: the flag is cleared, the entry is
\* stored again under its id and both records are saved
softExpire(urlEntry) ==
    /\ urlEntries' = MapSet(urlEntries, urlEntry.id,
                            [urlEntry EXCEPT !.isValid = FALSE])
    /\ urlOrder' = OrderSet(urlOrder, urlEntry.id)
    /\ UNCHANGED shortCodeToId
    /\ saveToStorage(urlEntries', urlOrder', shortCodeToId')

getUrlByShortCode(shortCode) ==
    /\ IF lookup(shortCode) # Null /\ isExpired(lookup(shortCode), clock)
       THEN softExpire(lookup(shortCode))
       ELSE UNCHANGED <<urlEntries, urlOrder, shortCodeToId, storage, writeBudget, thrown>>
    /\ last' = [op |-> "getUrlByShortCode", shortCode |-> shortCode,
                ret |-> resolve(shortCode)]
    /\ UNCHANGED clock

\* the click counted twice
countClick_Twice(urlEntry) == [urlEntry EXCEPT !.clicks = @ + 2]

\* urlEntry.clicks++
countClick(urlEntry) == [urlEntry EXCEPT !.clicks = @ + 1]

incrementClicks(shortCode) ==
    /\ IF resolve(shortCode) = Null
       THEN /\ IF lookup(shortCode) # Null
               THEN softExpire(lookup(shortCode))
               ELSE UNCHANGED <<urlEntries, urlOrder, shortCodeToId, storage, writeBudget, thrown>>
            /\ last' = [op |-> "incrementClicks", shortCode |-> shortCode,
                        ret |-> FALSE]
       ELSE LET urlEntry == resolve(shortCode) IN
            /\ urlEntry.clicks < MaxClicks
            /\ urlEntries' = MapSet(urlEntries, urlEntry.id, countClick(urlEntry))
            /\ urlOrder' = OrderSet(urlOrder, urlEntry.id)
            /\ UNCHANGED shortCodeToId
            /\ saveToStorage(urlEntries', urlOrder', shortCodeToId')
            /\ last' = [op |-> "incrementClicks", shortCode |-> shortCode,
                        ret |-> TRUE]
    /\ UNCHANGED clock

-----------------------------------------------------------------------------
(* getAllUrls *)

\* Array.prototype.sort with the comparator b.createdAt - a.createdAt: a
\* stable sort, latest createdAt first
RECURSIVE sortByCreatedAtDesc(_)
sortByCreatedAtDesc(s) ==
    IF s = <<>> THEN <<>>
    ELSE LET rest == sortByCreatedAtDesc(SubSeq(s, 1, Len(s) - 1))
             e == s[Len(s)]
             k == Cardinality({ i \in 1..Len(rest) : rest[i].createdAt >= e.createdAt })
         IN  SubSeq(rest, 1, k) \o <<e>> \o SubSeq(rest, k + 1, Len(rest))

getAllUrls == sortByCreatedAtDesc(valuesOf(urlEntries, urlOrder))

-----------------------------------------------------------------------------
(* deleteUrl and cleanupExpiredUrls *)

\* deleteUrl without the removal of the code from the index
deleteUrl_KeepsCode(id) ==
    /\ IF id \notin DOMAIN urlEntries
       THEN /\ UNCHANGED <<urlEntries, urlOrder, shortCodeToId, storage, writeBudget, thrown>>
            /\ last' = [op |-> "deleteUrl", id |-> id, ret |-> FALSE]
       ELSE /\ urlEntries' = MapDelete(urlEntries, id)
            /\ urlOrder' = OrderDelete(urlOrder, id)
            /\ UNCHANGED shortCodeToId
            /\ saveToStorage(urlEntries', urlOrder', shortCodeToId')
            /\ last' = [op |-> "deleteUrl", id |-> id, ret |-> TRUE]
    /\ UNCHANGED clock

\* deleteUrl that saves before it looks the id up
deleteUrl_SavesFirst(id) ==
    /\ IF id \notin DOMAIN urlEntries
       THEN /\ UNCHANGED <<urlEntries, urlOrder, shortCodeToId>>
            /\ saveToStorage(urlEntries', urlOrder', shortCodeToId')
            /\ last' = [op |-> "deleteUrl", id |-> id, ret |-> FALSE]
       ELSE /\ urlEntries' = MapDelete(urlEntries, id)
            /\ urlOrder' = OrderDelete(urlOrder, id)
            /\ shortCodeToId' = MapDelete(shortCodeToId, urlEntries[id].shortCode)
            /\ saveToStorage(urlEntries', urlOrder', shortCodeToId')
            /\ last' = [op |-> "deleteUrl", id |-> id, ret |-> TRUE]
    /\ UNCHANGED clock

deleteUrl(id) ==
    /\ IF id \notin DOMAIN urlEntries
       THEN /\ UNCHANGED <<urlEntries, urlOrder, shortCodeToId, storage, writeBudget, thrown>>
            /\ last' = [op |-> "deleteUrl", id |-> id, ret |-> FALSE]
       ELSE /\ urlEntries' = MapDelete(urlEntries, id)
            /\ urlOrder' = OrderDelete(urlOrder, id)
            /\ shortCodeToId' = MapDelete(shortCodeToId, urlEntries[id].shortCode)
            /\ saveToStorage(urlEntries', urlOrder', shortCodeToId')
            /\ last' = [op |-> "deleteUrl", id |-> id, ret |-> TRUE]
    /\ UNCHANGED clock

\* expiredUrls that stops at the first expired entry it meets
expiredUrls_OnlyFirst(now) ==
    { id \in DOMAIN urlEntries :
        /\ urlEntries[id].expiresAt < now
        /\ \A other \in DOMAIN urlEntries : urlEntries[other].expiresAt < now => id <= other }

\* expiredUrls that also takes the entry expiring at this very instant
expiredUrls_AtBoundary(now) == { id \in DOMAIN urlEntries : urlEntries[id].expiresAt <= now }

\* the ids pushed to expiredUrls: new Date(urlEntry.expiresAt) < now
expiredUrls(now) == { id \in DOMAIN urlEntries : urlEntries[id].expiresAt < now }

cleanupExpiredUrls ==
    LET expired == expiredUrls(clock)
        codes == { urlEntries[id].shortCode : id \in expired }
        kept(id) == id \notin expired
    IN  /\ urlEntries' = [id \in (DOMAIN urlEntries) \ expired |-> urlEntries[id]]
        /\ urlOrder' = SelectSeq(urlOrder, kept)
        /\ shortCodeToId' = [c \in (DOMAIN shortCodeToId) \ codes |-> shortCodeToId[c]]
        /\ IF expired # {}
           THEN saveToStorage(urlEntries', urlOrder', shortCodeToId')
           ELSE UNCHANGED <<storage, writeBudget, thrown>>
        /\ last' = [op |-> "cleanupExpiredUrls", ret |-> Cardinality(expired),
                    again |-> last.op = "cleanupExpiredUrls"]
        /\ UNCHANGED clock

-----------------------------------------------------------------------------
(* The clock and the specification *)

\* time passes between two calls; the clock does not go backwards. The
\* call that came before the pause is remembered.
Tick(t) ==
    /\ t > clock
    /\ clock' = t
    /\ last' = [op |-> "tick",
                after |-> IF last.op = "tick" THEN last.after ELSE last.op]
    /\ UNCHANGED <<urlEntries, urlOrder, shortCodeToId, storage, writeBudget, thrown>>

\* the service constructed in a browser whose localStorage holds neither
\* record and accepts every write
Init ==
    /\ urlEntries = EmptyMap
    /\ urlOrder = <<>>
    /\ shortCodeToId = EmptyMap
    /\ storage = [urlEntries |-> <<>>, shortCodeMappings |-> <<>>]
    /\ clock = 0
    /\ writeBudget = 0
    /\ thrown = FALSE
    /\ last = [op |-> "init"]

Next ==
    \/ \E request \in Requests : createShortUrl(request)
    \/ \E shortCode \in LookupCodes : getUrlByShortCode(shortCode)
    \/ \E shortCode \in LookupCodes : incrementClicks(shortCode)
    \/ \E id \in Instants : deleteUrl(id)
    \/ cleanupExpiredUrls
    \/ loadFromStorage
    \/ \E t \in Instants : Tick(t)

Spec == Init /\ [][Next]_vars

-----------------------------------------------------------------------------
(* A session that starts over records left in localStorage *)

MaxStoredItems == 2

\* elements of a stored array: two entries as createShortUrl stores them,
\* and the JSON value null
StoredItems ==
    { newEntry([longUrl |-> "https://example.com/page"], Rep("A", GeneratedLength), 0, 0),
      newEntry([longUrl |-> "https://example.com/page"], Rep("B", GeneratedLength), 59000, 59000),
      Null }

\* what getItem('urlEntries') can return: null (nothing stored), a text
\* JSON.parse rejects, the empty text, the text "null", the text "{}", the
\* text of an array
StoredUrls ==
    { <<>>, <<[json |-> "unparseable"]>>, <<[json |-> "empty"]>>, <<[json |-> "null"]>>,
      <<[json |-> "object", members |-> EmptyMap]>> }
    \cup { <<[json |-> "array", items |-> s]>> :
             s \in UNION { [1..n -> StoredItems] : n \in 0..MaxStoredItems } }

\* what getItem('shortCodeMappings') can return
StoredMappings ==
    { <<>>, <<[json |-> "unparseable"]>>, <<[json |-> "empty"]>>, <<[json |-> "null"]>> }
    \cup { <<[json |-> "object", members |-> m]>> :
             m \in { EmptyMap,
                     [c \in { Rep("A", GeneratedLength) } |-> 0],
                     [c \in GenPool |-> IF c = Rep("A", GeneratedLength) THEN 0 ELSE 59000] } }
    \cup { <<[json |-> "array", items |-> s]>> :
             s \in UNION { [1..n -> StoredItems] : n \in 0..MaxStoredItems } }

\* the page is opened over any pair of records, before the service is
\* constructed
InitLoad ==
    /\ urlEntries = EmptyMap
    /\ urlOrder = <<>>
    /\ shortCodeToId = EmptyMap
    /\ storage \in [urlEntries : StoredUrls, shortCodeMappings : StoredMappings]
    /\ clock = 0
    /\ writeBudget = 0
    /\ thrown = FALSE
    /\ last = [op |-> "init"]

NextLoad ==
    \/ loadFromStorage
    \/ \E t \in Instants : Tick(t)

SpecLoad == InitLoad /\ [][NextLoad]_vars

-----------------------------------------------------------------------------
(* A session over a localStorage that rejects some writes *)

MaxWriteFailures == 1

\* requests of a session whose writes can fail: the default validity and a
\* validity that is already over
FaultyRequests ==
    { [longUrl |-> "https://example.com/page"],
      [longUrl |-> "https://example.com/page", validityMinutes |-> -1] }

\* setItem throws (quota exceeded, storage disabled) at most
\* MaxWriteFailures times in the session
InitFaulty ==
    /\ urlEntries = EmptyMap
    /\ urlOrder = <<>>
    /\ shortCodeToId = EmptyMap
    /\ storage = [urlEntries |-> <<>>, shortCodeMappings |-> <<>>]
    /\ clock = 0
    /\ writeBudget = MaxWriteFailures
    /\ thrown = FALSE
    /\ last = [op |-> "init"]

\* the pauses explored between two calls of this session
LateInstants == {60000}

NextFaulty ==
    \/ \E request \in FaultyRequests : createShortUrl(request)
    \/ \E shortCode \in GenPool : getUrlByShortCode(shortCode)
    \/ \E shortCode \in GenPool : incrementClicks(shortCode)
    \/ \E id \in Instants : deleteUrl(id)
    \/ cleanupExpiredUrls
    \/ loadFromStorage
    \/ \E t \in LateInstants : Tick(t)

SpecFaulty == InitFaulty /\ [][NextFaulty]_vars

-----------------------------------------------------------------------------
(* The session with the periodic sweep *)

\* setInterval(() => urlService.cleanupExpiredUrls(), 60000) keeps firing
\* while the page is open: a sweep that would remove something is not
\* postponed forever; and time advances
SpecSweep ==
    /\ Init
    /\ [][Next]_vars
    /\ WF_vars(cleanupExpiredUrls)
    /\ WF_vars(\E t \in Instants : Tick(t))

-----------------------------------------------------------------------------
(* Claims *)

\* the entries in the store
Entries == { urlEntries[id] : id \in DOMAIN urlEntries }

\* the stored entries whose shortCode is c
Owners(c) == { e \in Entries : e.shortCode = c }

ValidLongUrl(request) == validateLongUrl(request.longUrl).isValid

\* C1: the two indexes agree: every entry's shortCode is mapped to the
\* entry's own id, and every code of the index maps to a stored id whose
\* entry carries that code.
C1_IndexesAgree ==
    /\ \A id \in DOMAIN urlEntries :
          /\ urlEntries[id].shortCode \in DOMAIN shortCodeToId
          /\ shortCodeToId[urlEntries[id].shortCode] = urlEntries[id].id
    /\ \A c \in DOMAIN shortCodeToId :
          /\ shortCodeToId[c] \in DOMAIN urlEntries
          /\ urlEntries[shortCodeToId[c]].shortCode = c

\* C2: no two stored entries have the same shortCode.
C2_UniqueShortCodes ==
    \A i, j \in DOMAIN urlEntries :
        urlEntries[i].shortCode = urlEntries[j].shortCode => i = j

\* C2 witness: a custom-coded entry and a generated-coded entry are stored
\* together, one of them soft-expired, after a code was freed by a removal
C2_Witness ==
    /\ \E e \in Entries : "customShortCode" \in DOMAIN e /\ e.customShortCode = e.shortCode
                          /\ ~e.isValid
    /\ \E e \in Entries : "customShortCode" \notin DOMAIN e /\ e.createdAt > 0
    /\ Cardinality(DOMAIN urlEntries) = 2

\* C3: a successful createShortUrl assigns an id no stored entry has, so it
\* adds exactly one entry and keeps every entry that was stored.
C3_FreshId ==
    [][ (last'.op = "createShortUrl" /\ last'.ret.success)
        => /\ last'.ret.urlEntry.id \notin DOMAIN urlEntries
           /\ DOMAIN urlEntries' = (DOMAIN urlEntries) \cup {last'.ret.urlEntry.id}
           /\ \A id \in DOMAIN urlEntries : urlEntries'[id] = urlEntries[id] ]_vars

\* C4: getUrlByShortCode of the code of a stored entry returns the entry when
\* the clock is not later than its expiresAt (equal included) and null when
\* the clock is later.
C4_ResolveByExpiry ==
    last.op = "getUrlByShortCode" =>
        \A e \in Owners(last.shortCode) :
            IF clock <= e.expiresAt THEN last.ret = e ELSE last.ret = Null

\* C4 witness: an entry created with validityMinutes = 1 is resolved exactly
\* at its expiresAt and returned
C4_Witness ==
    /\ last.op = "getUrlByShortCode"
    /\ \E e \in Owners(last.shortCode) :
          /\ e.expiresAt = e.createdAt + 1 * MsPerMinute
          /\ clock = e.expiresAt
          /\ last.ret = e

\* C5: incrementClicks on a code whose entry is stored and not past expiresAt
\* returns true, raises that entry's clicks by exactly 1 and leaves the
\* clicks of every other entry unchanged.
C5_ClickAddsOne ==
    [][ (/\ last'.op = "incrementClicks"
         /\ last'.shortCode \in DOMAIN shortCodeToId
         /\ shortCodeToId[last'.shortCode] \in DOMAIN urlEntries
         /\ clock <= urlEntries[shortCodeToId[last'.shortCode]].expiresAt)
        => /\ last'.ret = TRUE
           /\ DOMAIN urlEntries' = DOMAIN urlEntries
           /\ \A id \in DOMAIN urlEntries :
                 urlEntries'[id].clicks =
                    IF id = shortCodeToId[last'.shortCode]
                    THEN urlEntries[id].clicks + 1
                    ELSE urlEntries[id].clicks ]_vars

\* C5 witness: a second successful incrementClicks has brought an entry to
\* two clicks while another entry is stored
C5_Witness ==
    /\ last.op = "incrementClicks"
    /\ last.ret = TRUE
    /\ Cardinality(DOMAIN urlEntries) = 2
    /\ urlEntries[shortCodeToId[last.shortCode]].clicks = 2

\* C6: incrementClicks on a code that is not in the index, or on a code whose
\* entry is past expiresAt, returns false and changes no clicks counter.
C6_NoClickWhenUnavailable ==
    [][ (/\ last'.op = "incrementClicks"
         /\ \/ last'.shortCode \notin DOMAIN shortCodeToId
            \/ /\ shortCodeToId[last'.shortCode] \in DOMAIN urlEntries
               /\ clock > urlEntries[shortCodeToId[last'.shortCode]].expiresAt)
        => /\ last'.ret = FALSE
           /\ DOMAIN urlEntries' = DOMAIN urlEntries
           /\ \A id \in DOMAIN urlEntries :
                 urlEntries'[id].clicks = urlEntries[id].clicks ]_vars

\* C6 witness: incrementClicks was refused on an entry past its expiresAt
\* that had been clicked before
C6_Witness ==
    /\ last.op = "incrementClicks"
    /\ last.ret = FALSE
    /\ \E e \in Owners(last.shortCode) : clock > e.expiresAt /\ e.clicks > 0

\* C7: the clicks stored under an id never decrease while the id stays in the
\* store, and never increase once the entry's isValid is false.
C7_ClicksMonotone ==
    [][ \A id \in (DOMAIN urlEntries) \cap (DOMAIN urlEntries') :
          /\ urlEntries'[id].clicks >= urlEntries[id].clicks
          /\ ~urlEntries[id].isValid
                => urlEntries'[id].clicks = urlEntries[id].clicks ]_vars

\* whether a custom code is out of the length range or has a character
\* outside [A-Za-z0-9]
LengthOutOfRange(c) == Len(c) < MinCodeLength \/ Len(c) > MaxCodeLength

HasBadCharacter(c) == \E i \in 1..Len(c) : c[i] \notin chars

\* C8: createShortUrl with a valid long URL and a custom code whose length
\* is outside [3,20] (the empty string included) or that has a character
\* outside [A-Za-z0-9] fails with a validation error (the length error when
\* the length is out of range) and changes neither index nor the persisted
\* records.
C8_BadCustomCodeRejected ==
    [][ (/\ last'.op = "createShortUrl"
         /\ ValidLongUrl(last'.request)
         /\ "customShortCode" \in DOMAIN last'.request
         /\ \/ LengthOutOfRange(last'.request.customShortCode)
            \/ HasBadCharacter(last'.request.customShortCode))
        => /\ ~last'.ret.success
           /\ last'.ret.error \in
                 IF LengthOutOfRange(last'.request.customShortCode)
                 THEN {"Shortcode must be between 3 and 20 characters"}
                 ELSE {"Shortcode must contain only letters and numbers"}
           /\ UNCHANGED <<urlEntries, shortCodeToId, storage>> ]_vars

\* C9: while an entry created with custom code c is stored, createShortUrl
\* with a valid long URL and the same custom code c fails with 'Shortcode
\* already exists' and changes neither index nor the persisted records.
C9_SecondCustomCodeTaken ==
    [][ (/\ last'.op = "createShortUrl"
         /\ ValidLongUrl(last'.request)
         /\ "customShortCode" \in DOMAIN last'.request
         /\ \E e \in Owners(last'.request.customShortCode) :
               /\ "customShortCode" \in DOMAIN e
               /\ e.customShortCode = e.shortCode)
        => /\ ~last'.ret.success
           /\ last'.ret.error = "Shortcode already exists"
           /\ UNCHANGED <<urlEntries, shortCodeToId, storage>> ]_vars

\* C9 witness: a create was refused because its custom code is the code of
\* a stored entry that was created with it
C9_Witness ==
    /\ last.op = "createShortUrl"
    /\ ~last.ret.success
    /\ last.ret.error = "Shortcode already exists"
    /\ \E e \in Owners(last.request.customShortCode) :
          "customShortCode" \in DOMAIN e /\ e.customShortCode = e.shortCode

\* C10: a successful createShortUrl returns and stores an entry with
\* clicks = 0, isValid = true and expiresAt - createdAt equal to the supplied
\* validityMinutes in minutes, for every supplied value, and to 30 minutes
\* when validityMinutes is omitted.
C10_NewEntryFields ==
    (last.op = "createShortUrl" /\ last.ret.success) =>
        LET e == last.ret.urlEntry IN
        /\ e.id \in DOMAIN urlEntries
        /\ urlEntries[e.id] = e
        /\ e.clicks = 0
        /\ e.isValid
        /\ e.expiresAt - e.createdAt =
              IF "validityMinutes" \in DOMAIN last.request
              THEN last.request.validityMinutes * MsPerMinute
              ELSE DefaultValidityMinutes * MsPerMinute


\* C11: every stored entry has expiresAt strictly later than createdAt,
\* whatever validityMinutes createShortUrl accepted (zero and negative
\* numbers included).
C11_ExpiresAfterCreated ==
    \A id \in DOMAIN urlEntries :
        urlEntries[id].expiresAt > urlEntries[id].createdAt

\* C12: createShortUrl with a valid long URL and no custom code succeeds with
\* a shortCode of exactly 8 characters of the 62-character alphabet that was
\* not a key of shortCodeToId before the call.
C12_GeneratedCode ==
    [][ (/\ last'.op = "createShortUrl"
         /\ ValidLongUrl(last'.request)
         /\ "customShortCode" \notin DOMAIN last'.request)
        => /\ last'.ret.success
           /\ Len(last'.ret.urlEntry.shortCode) = GeneratedLength
           /\ \A i \in 1..Len(last'.ret.urlEntry.shortCode) :
                 last'.ret.urlEntry.shortCode[i] \in chars
           /\ last'.ret.urlEntry.shortCode \notin DOMAIN shortCodeToId
           /\ last'.ret.urlEntry.shortCode \in DOMAIN shortCodeToId' ]_vars

\* C12 witness: a code was generated while the other code the generator can
\* draw was a key of the index
C12_Witness ==
    /\ last.op = "createShortUrl"
    /\ "customShortCode" \notin DOMAIN last.request
    /\ last.ret.success
    /\ \E c \in GenPool : c # last.ret.urlEntry.shortCode /\ c \in DOMAIN shortCodeToId


\* C13: deleteUrl of a stored id returns true and removes the id and the
\* entry's code together, whether the entry is active or soft-expired:
\* right after the call getUrlByShortCode of that code returns null, the
\* entry is not in getAllUrls, and validateShortCode accepts the code.
C13_DeleteRemovesBoth ==
    [][ (last'.op = "deleteUrl" /\ last'.id \in DOMAIN urlEntries)
        => \A c \in { urlEntries[last'.id].shortCode } :
              /\ last'.ret = TRUE
              /\ last'.id \notin DOMAIN urlEntries'
              /\ c \notin DOMAIN shortCodeToId'
              /\ resolve(c)' = Null
              /\ \A i \in 1..Len(getAllUrls') : getAllUrls'[i].id # last'.id
              /\ validateShortCode(c)'.isValid ]_vars

\* C13 witness: an entry was deleted while another entry, soft-expired,
\* stays stored and listed
C13_Witness ==
    /\ last.op = "deleteUrl"
    /\ last.ret = TRUE
    /\ Len(getAllUrls) = 1
    /\ ~getAllUrls[1].isValid

\* C14: deleteUrl of an id that is not stored returns false, changes neither
\* Map and writes nothing to the persistent store.
C14_DeleteAbsentIsNoOp ==
    [][ (last'.op = "deleteUrl" /\ last'.id \notin DOMAIN urlEntries)
        => /\ last'.ret = FALSE
           /\ UNCHANGED <<urlEntries, urlOrder, shortCodeToId, storage, writeBudget>> ]_vars

\* C14 witness: a deleteUrl of an absent id was refused while an entry is
\* stored
C14_Witness ==
    /\ last.op = "deleteUrl"
    /\ last.ret = FALSE
    /\ last.id \notin DOMAIN urlEntries
    /\ urlEntries # EmptyMap


\* C15: cleanupExpiredUrls removes exactly the entries whose expiresAt is
\* strictly before now, together with their codes, leaves every other entry
\* and every other index mapping as it was, and returns how many entries it
\* removed.
C15_CleanupRemovesExpired ==
    [][ last'.op = "cleanupExpiredUrls"
        => LET removed == { id \in DOMAIN urlEntries : urlEntries[id].expiresAt < clock }
               codes == { urlEntries[id].shortCode : id \in removed }
           IN  /\ DOMAIN urlEntries' = (DOMAIN urlEntries) \ removed
               /\ \A id \in DOMAIN urlEntries' : urlEntries'[id] = urlEntries[id]
               /\ DOMAIN shortCodeToId' = (DOMAIN shortCodeToId) \ codes
               /\ \A c \in DOMAIN shortCodeToId' : shortCodeToId'[c] = shortCodeToId[c]
               /\ last'.ret = Cardinality(removed) ]_vars

\* C15 witness: a sweep removed an entry and kept the one that expires at
\* this very instant
C15_Witness ==
    /\ last.op = "cleanupExpiredUrls"
    /\ last.ret >= 1
    /\ \E id \in DOMAIN urlEntries : urlEntries[id].expiresAt = clock


\* C16 as stated: of two sweeps with no entry created in between (here:
\* nothing but the passage of time in between), the second returns 0.
C16_SecondSweepReturnsZero ==
    [][ (/\ last'.op = "cleanupExpiredUrls"
         /\ \/ last.op = "cleanupExpiredUrls"
            \/ last.op = "tick" /\ last.after = "cleanupExpiredUrls")
        => last'.ret = 0 ]_vars

\* C16 amended: of two sweeps with nothing in between, not even the passage
\* of time, the second returns 0.
C16_SecondSweepSameInstant ==
    [][ (last'.op = "cleanupExpiredUrls" /\ last.op = "cleanupExpiredUrls")
        => last'.ret = 0 ]_vars

\* C16 witness: a sweep that directly follows a sweep has returned 0 while
\* entries are stored
C16_Witness ==
    /\ last.op = "cleanupExpiredUrls"
    /\ last.again
    /\ last.ret = 0
    /\ urlEntries # EmptyMap


\* what a successful saveToStorage of the two Maps leaves in the store
Persisted(entries, order, index) ==
    [urlEntries |-> <<StringifyUrls(entries, order)>>,
     shortCodeMappings |-> <<StringifyMappings(index)>>]

\* C17: a new service that loads what saveToStorage has written of the two
\* Maps holds the same entries (same ids, codes, click counts and all other
\* fields) and the same index as the service that saved.
C17_SaveLoadRoundTrip ==
    [][ (last'.op = "loadFromStorage" /\ storage = Persisted(urlEntries, urlOrder, shortCodeToId))
        => /\ urlEntries' = urlEntries
           /\ shortCodeToId' = shortCodeToId
           /\ ~last'.caught ]_vars

\* C17 witness: a restart has loaded two entries, one of them clicked and
\* one of them soft-expired
C17_Witness ==
    /\ last.op = "loadFromStorage"
    /\ storage = Persisted(urlEntries, urlOrder, shortCodeToId)
    /\ Cardinality(DOMAIN urlEntries) = 2
    /\ \E id \in DOMAIN urlEntries : urlEntries[id].clicks > 0
    /\ \E id \in DOMAIN urlEntries : ~urlEntries[id].isValid


\* a record that is stored but unparseable or not of the expected shape,
\* possibly after some well-formed elements
Corrupt(store) ==
    \/ /\ store.urlEntries # <<>>
       /\ \/ store.urlEntries[1].json # "array"
          \/ \E i \in 1..Len(store.urlEntries[1].items) : store.urlEntries[1].items[i] = Null
    \/ /\ store.shortCodeMappings # <<>>
       /\ store.shortCodeMappings[1].json # "object"

NothingStored(store) == store.urlEntries = <<>> /\ store.shortCodeMappings = <<>>

\* C18: loadFromStorage throws nothing to its caller, and over a store that
\* holds nothing or holds a corrupt record it leaves both Maps empty.
C18_CorruptLoadsEmpty ==
    [][ last'.op = "loadFromStorage"
        => /\ ~thrown'
           /\ (NothingStored(storage) \/ Corrupt(storage))
                 => urlEntries' = EmptyMap /\ shortCodeToId' = EmptyMap ]_vars


\* the state change and the result of the call recorded in last', as the
\* call makes them when its write is accepted
CompletesAsUsual ==
    CASE last'.op = "createShortUrl" ->
            /\ last'.ret.success
            /\ last'.ret.urlEntry.createdAt = clock
            /\ urlEntries' = MapSet(urlEntries, last'.ret.urlEntry.id, last'.ret.urlEntry)
            /\ shortCodeToId' = MapSet(shortCodeToId, last'.ret.urlEntry.shortCode,
                                       last'.ret.urlEntry.id)
      [] last'.op = "getUrlByShortCode" ->
            /\ last'.ret = Null
            /\ lookup(last'.shortCode) # Null
            /\ urlEntries' = MapSet(urlEntries, lookup(last'.shortCode).id,
                                    [lookup(last'.shortCode) EXCEPT !.isValid = FALSE])
            /\ UNCHANGED shortCodeToId
      [] last'.op = "incrementClicks" ->
            /\ lookup(last'.shortCode) # Null
            /\ last'.ret = (clock <= lookup(last'.shortCode).expiresAt)
            /\ urlEntries' = MapSet(urlEntries, lookup(last'.shortCode).id,
                                    IF last'.ret
                                    THEN [lookup(last'.shortCode) EXCEPT !.clicks = @ + 1]
                                    ELSE [lookup(last'.shortCode) EXCEPT !.isValid = FALSE])
            /\ UNCHANGED shortCodeToId
      [] last'.op = "deleteUrl" ->
            /\ last'.ret = TRUE
            /\ last'.id \in DOMAIN urlEntries
            /\ urlEntries' = MapDelete(urlEntries, last'.id)
            /\ shortCodeToId' = MapDelete(shortCodeToId, urlEntries[last'.id].shortCode)
      [] OTHER -> last'.op = "cleanupExpiredUrls" /\ last'.ret >= 1

\* C19: a create, resolve, click or delete whose write the store rejects
\* throws nothing and returns the result and makes the change in memory
\* that it makes when the write is accepted.
C19_RejectedWriteAbsorbed ==
    [][ writeBudget' < writeBudget => ~thrown' /\ CompletesAsUsual ]_vars

\* C19 witness: a create has returned success and stored its entry while
\* the store holds neither record, its write having been rejected
C19_Witness ==
    /\ last.op = "createShortUrl"
    /\ last.ret.success
    /\ urlEntries[last.ret.urlEntry.id] = last.ret.urlEntry
    /\ writeBudget < MaxWriteFailures
    /\ NothingStored(storage)

\* C20: an operation that changes urlEntries or shortCodeToId and whose
\* write the store accepts leaves the two persisted records equal to the
\* two Maps as they are at the end of the operation.
C20_WriteThrough ==
    [][ (/\ <<urlEntries, shortCodeToId>>' # <<urlEntries, shortCodeToId>>
         /\ last'.op # "loadFromStorage"
         /\ writeBudget' = writeBudget)
        => storage' = Persisted(urlEntries', urlOrder', shortCodeToId') ]_vars

\* C20 witness: after an earlier write was rejected, a resolve has
\* soft-expired an entry and the store holds the two Maps as they are now
C20_Witness ==
    /\ last.op = "getUrlByShortCode"
    /\ last.ret = Null
    /\ \E id \in DOMAIN urlEntries : ~urlEntries[id].isValid
    /\ writeBudget < MaxWriteFailures
    /\ storage = Persisted(urlEntries, urlOrder, shortCodeToId)


\* every code the generator can draw is a key of the index
Saturated == GenPool \subseteq DOMAIN shortCodeToId

\* C21: createShortUrl without a custom code always returns: over a
\* saturated index the call can complete (with a failure response), it
\* does not retry forever.
C21_GeneratedCreateReturns ==
    Saturated
    => \A request \in Requests :
          (ValidLongUrl(request) /\ ~hasCustomShortCode(request))
             => ENABLED createShortUrl(request)


\* C22: a getUrlByShortCode or incrementClicks that finds an entry past
\* expiresAt only clears its isValid flag: the entry and its code stay
\* stored and the code is still reported as taken; a createShortUrl asking
\* for the code of a soft-expired entry fails with the code-taken error; an
\* id or a code leaves its Map only in cleanupExpiredUrls or deleteUrl.
C22_SoftExpiryKeepsCode ==
    [][ /\ (/\ last'.op \in { "getUrlByShortCode", "incrementClicks" }
            /\ lookup(last'.shortCode) # Null
            /\ isExpired(lookup(last'.shortCode), clock))
           => /\ urlEntries' = MapSet(urlEntries, lookup(last'.shortCode).id,
                                      [lookup(last'.shortCode) EXCEPT !.isValid = FALSE])
              /\ shortCodeToId' = shortCodeToId
              /\ \A c \in { last'.shortCode } :
                    validateShortCode(c)' =
                       [isValid |-> FALSE, error |-> "Shortcode already exists"]
        /\ (/\ last'.op = "createShortUrl"
            /\ ValidLongUrl(last'.request)
            /\ hasCustomShortCode(last'.request)
            /\ lookup(last'.request.customShortCode) # Null
            /\ ~lookup(last'.request.customShortCode).isValid)
           => /\ ~last'.ret.success
              /\ last'.ret.error = "Shortcode already exists"
              /\ UNCHANGED <<urlEntries, shortCodeToId>>
        /\ (\/ ~((DOMAIN urlEntries) \subseteq DOMAIN urlEntries')
            \/ ~((DOMAIN shortCodeToId) \subseteq DOMAIN shortCodeToId'))
           => last'.op \in { "cleanupExpiredUrls", "deleteUrl" } ]_vars

\* C22 witness: a create was refused with the code-taken error because its
\* custom code belongs to a stored entry that a read has soft-expired
C22_Witness ==
    /\ last.op = "createShortUrl"
    /\ ~last.ret.success
    /\ last.ret.error = "Shortcode already exists"
    /\ hasCustomShortCode(last.request)
    /\ lookup(last.request.customShortCode) # Null
    /\ ~lookup(last.request.customShortCode).isValid


\* the fields of an entry that are fixed at its creation
Fixed(e) == <<e.id, e.longUrl, e.shortCode, e.createdAt, e.expiresAt>>

\* C23: as long as an id stays stored, the id, longUrl, shortCode,
\* createdAt and expiresAt stored under it do not change, whatever
\* operation is performed.
C23_FixedFields ==
    [][ \A id \in (DOMAIN urlEntries) \cap (DOMAIN urlEntries') :
           Fixed(urlEntries'[id]) = Fixed(urlEntries[id]) ]_vars


\* C26: every stored entry whose isValid is false has expiresAt earlier
\* than the current time, and the isValid stored under an id that stays in
\* the store never goes from false back to true.
C26_InvalidMeansExpired ==
    [][ /\ \A id \in DOMAIN urlEntries' :
              ~urlEntries'[id].isValid => urlEntries'[id].expiresAt < clock'
        /\ \A id \in (DOMAIN urlEntries) \cap (DOMAIN urlEntries') :
              ~urlEntries[id].isValid => ~urlEntries'[id].isValid ]_vars


\* C25: after loadFromStorage every code of the index is the shortCode of
\* the loaded entry stored under the id the index gives for it, whatever
\* pair of records the previous session left, a pair whose second write
\* was rejected included.
C25_LoadedIndexAgrees ==
    [][ last'.op = "loadFromStorage"
        => \A c \in DOMAIN shortCodeToId' :
              /\ shortCodeToId'[c] \in DOMAIN urlEntries'
              /\ urlEntries'[shortCodeToId'[c]].shortCode = c ]_vars


\* C24: under the periodic sweep, an entry stored under id with code c
\* whose expiresAt has passed is eventually gone from both Maps: id is not
\* a key of urlEntries and c is not a key of shortCodeToId.
C24_ExpiredEventuallySwept ==
    \A id \in Instants : \A c \in GenPool :
        (/\ id \in DOMAIN urlEntries
         /\ urlEntries[id].shortCode = c
         /\ urlEntries[id].expiresAt < clock)
        ~> (id \notin DOMAIN urlEntries /\ c \notin DOMAIN shortCodeToId)

====
